---- MODULE Spec2Model ----
(***************************************************************************)
(* Script manager (src/manager.py): a JSON registry of script aliases and  *)
(* category notes, an archiving "add", a tree listing, and an argv         *)
(* dispatcher that either runs a registered script or parses management    *)
(* flags.                                                                  *)
(*                                                                         *)
(* Strings the code inspects character by character (argv tokens, paths,   *)
(* aliases, category paths, notes) are sequences of one-character strings. *)
(* The token alphabet leaves out "=", blanks, the bare "--" token and      *)
(* negative numbers, which argparse treats specially.                      *)
(***************************************************************************)
EXTENDS Integers, Sequences, FiniteSets, TLC

VARIABLES
    file,      \* data.json: [kind, data]; kind "absent" | "json" | "trunc" | "garbage"
    before,    \* data.json as the last call found it
    call,      \* the last call: [fn, argv, env]
    out,       \* what the last call did: [kind, alias, args, lines, saves]
    pc,        \* concurrent invocations: position of each process
    cmd,       \* concurrent invocations: the mutating command of each process
    local,     \* concurrent invocations: the in-memory registry of each process
    hist,      \* concurrent invocations: the events so far, <<process, event>>
    file0      \* concurrent invocations: data.json when the two runs started

vars == <<file, before, call, out, pc, cmd, local, hist, file0>>

----------------------------------------------------------------------------
(* Bounds *)

\* Most script records the registry may hold (an add that would create one
\* more is not taken).
MaxScripts == 3

----------------------------------------------------------------------------
(* Python string operations, on sequences of characters *)

\* Code points of the characters used, for str comparison.
Ord(c) ==
    CASE c = "-" -> 45 [] c = "." -> 46 [] c = "/" -> 47
      [] c = "0" -> 48 [] c = "1" -> 49 [] c = "2" -> 50 [] c = "3" -> 51
      [] c = "4" -> 52 [] c = "5" -> 53 [] c = "6" -> 54 [] c = "7" -> 55
      [] c = "8" -> 56 [] c = "9" -> 57
      [] c = "\\" -> 92 [] c = "_" -> 95
      [] c = "a" -> 97 [] c = "b" -> 98 [] c = "c" -> 99 [] c = "d" -> 100
      [] c = "e" -> 101 [] c = "h" -> 104 [] c = "i" -> 105 [] c = "l" -> 108
      [] c = "n" -> 110 [] c = "p" -> 112 [] c = "s" -> 115 [] c = "t" -> 116
      [] c = "x" -> 120

\* s < t for Python str.
RECURSIVE StrLess(_, _)
StrLess(s, t) ==
    IF t = <<>> THEN FALSE
    ELSE IF s = <<>> THEN TRUE
    ELSE IF Ord(Head(s)) # Ord(Head(t)) THEN Ord(Head(s)) < Ord(Head(t))
    ELSE StrLess(Tail(s), Tail(t))

\* s.replace(a, b) for one-character a and b.
Replace(s, a, b) == [i \in 1..Len(s) |-> IF s[i] = a THEN b ELSE s[i]]

\* s.count(c)
Count(s, c) == Cardinality({i \in 1..Len(s) : s[i] = c})

\* s.startswith(p)
StartsWith(s, p) == Len(p) <= Len(s) /\ SubSeq(s, 1, Len(p)) = p

\* s.lstrip(c)
RECURSIVE LStrip(_, _)
LStrip(s, c) == IF s # <<>> /\ Head(s) = c THEN LStrip(Tail(s), c) ELSE s

\* s.rfind(c), 1-based; 0 when c does not occur.
RFind(s, c) ==
    LET at == {i \in 1..Len(s) : s[i] = c}
    IN  IF at = {} THEN 0 ELSE CHOOSE i \in at : \A j \in at : j <= i

\* s.split(c): the segments between occurrences of c.
RECURSIVE Split(_, _)
Split(s, c) ==
    LET at == {i \in 1..Len(s) : s[i] = c}
    IN  IF at = {} THEN <<s>>
        ELSE LET k == CHOOSE i \in at : \A j \in at : i <= j
             IN  <<SubSeq(s, 1, k - 1)>> \o Split(SubSeq(s, k + 1, Len(s)), c)

\* str(n) for n >= 0.
RECURSIVE Str(_)
Str(n) ==
    LET d == <<"0", "1", "2", "3", "4", "5", "6", "7", "8", "9">>[(n % 10) + 1]
    IN  IF n < 10 THEN <<d>> ELSE Str(n \div 10) \o <<d>>

----------------------------------------------------------------------------
(* pathlib, on absolute and relative POSIX paths without "." or ".." *)

\* The directory the manager is started in.
Cwd == <<"/", "a">>

\* The storage root, STORAGE_DIR.
StorageDir == <<"/", "s">>

\* Path(p).resolve(): a relative path is taken from the working directory.
Resolve(p) == IF p # <<>> /\ p[1] = "/" THEN p ELSE Cwd \o <<"/">> \o p

\* Path(p).name
PathName(p) == LET parts == Split(p, "/") IN parts[Len(parts)]

\* Path(p).stem: the name up to its last dot, unless that dot is first or last.
PathStem(p) ==
    LET name == PathName(p)
        i    == RFind(name, ".")
    IN  IF 1 < i /\ i < Len(name) THEN SubSeq(name, 1, i - 1) ELSE name

\* root.joinpath(*parts): empty parts are dropped.
RECURSIVE JoinPath(_, _)
JoinPath(root, parts) ==
    IF parts = <<>> THEN root
    ELSE IF Head(parts) = <<>> THEN JoinPath(root, Tail(parts))
    ELSE JoinPath(root \o <<"/">> \o Head(parts), Tail(parts))

----------------------------------------------------------------------------
(* The registry: scripts is a dict in insertion order, a sequence of       *)
(* [alias, path, backup, category, note]; categories maps path to note.    *)

EmptyMap == [k \in {} |-> <<>>]

EmptyRegistry == [scripts |-> <<>>, categories |-> EmptyMap]

NoFile == [kind |-> "absent", data |-> EmptyRegistry]

\* alias in data["scripts"]
HasKey(scripts, alias) == \E i \in 1..Len(scripts) : scripts[i].alias = alias

\* data["scripts"][alias]
Get(scripts, alias) ==
    scripts[CHOOSE i \in 1..Len(scripts) : scripts[i].alias = alias]

\* Mutant of Put: the records kept in a list, every assignment appended.
PutAppend(scripts, rec) == Append(scripts, rec)

\* data["scripts"][alias] = rec: in place for a present key, else appended.
Put(scripts, rec) ==
    IF HasKey(scripts, rec.alias)
    THEN [i \in 1..Len(scripts) |->
             IF scripts[i].alias = rec.alias THEN rec ELSE scripts[i]]
    ELSE Append(scripts, rec)

\* categories is a dict from category path to note.
CatHas(categories, c) == c \in DOMAIN categories

\* categories.get(c, "")
CatGet(categories, c) == IF CatHas(categories, c) THEN categories[c] ELSE <<>>

\* categories[c] = note
CatPut(categories, c, note) ==
    [k \in DOMAIN categories \cup {c} |-> IF k = c THEN note ELSE categories[k]]

\* load_data(): the parsed document, or an empty registry when the file is
\* missing or does not parse.
load_data(f) == IF f.kind = "json" THEN f.data ELSE EmptyRegistry

\* save_data(data): the file holds the whole document.
save_data(data) == [kind |-> "json", data |-> data]

----------------------------------------------------------------------------
(* What a call did, and the filesystem's answers to it *)

Out(kind, alias, args, lines, saves) ==
    [kind |-> kind, alias |-> alias, args |-> args, lines |-> lines,
     saves |-> saves]

NoOut == Out("none", <<>>, <<>>, <<>>, 0)

\* exists: the source (or script) path exists; mkdir_ok: the category
\* directory exists or can be created; copy_ok: the copy succeeds.
FsOk        == [exists |-> TRUE,  mkdir_ok |-> TRUE,  copy_ok |-> TRUE]
FsNoFile    == [exists |-> FALSE, mkdir_ok |-> TRUE,  copy_ok |-> TRUE]
FsMkdirFail == [exists |-> TRUE,  mkdir_ok |-> FALSE, copy_ok |-> TRUE]
FsCopyFail  == [exists |-> TRUE,  mkdir_ok |-> TRUE,  copy_ok |-> FALSE]

EnvSet == {FsOk, FsNoFile, FsMkdirFail, FsCopyFail}

----------------------------------------------------------------------------
(* run_script_direct *)

\* Starts the interpreter on the recorded path with the pass-through
\* arguments, or reports the missing original and the backup.
run_script_direct(f, alias, extra_args, env) ==
    LET data == load_data(f)
        info == Get(data.scripts, alias)
    IN  [file |-> f,
         out  |-> IF env.exists
                  THEN Out("run", alias, <<info.path>> \o extra_args, <<>>, 0)
                  ELSE Out("run_missing", alias, <<info.path, info.backup>>,
                           <<>>, 0)]

----------------------------------------------------------------------------
(* cmd_list *)

\* sorted(items, key=category): stable, so equal keys keep dict order.
RECURSIVE InsertByCategory(_, _)
InsertByCategory(sorted, rec) ==
    IF sorted = <<>> THEN <<rec>>
    ELSE IF StrLess(rec.category, Head(sorted).category) THEN <<rec>> \o sorted
    ELSE <<Head(sorted)>> \o InsertByCategory(Tail(sorted), rec)

\* Mutant of SortedByCategory: the items in dict order, unsorted.
Unsorted(items) == items

RECURSIVE SortedByCategory(_)
SortedByCategory(items) ==
    IF items = <<>> THEN <<>>
    ELSE InsertByCategory(SortedByCategory(SubSeq(items, 1, Len(items) - 1)),
                          items[Len(items)])

\* The printed lines. A header carries its indentation (in two-space
\* levels), the last path segment and the category note; a script line its
\* indentation, the alias and the script note. cat is the loop's category
\* variable at the print, which is not itself printed.
HeaderLine(cat, categories) ==
    LET parts == Split(cat, "/")
    IN  [kind |-> "header", indent |-> Count(cat, "/"),
         text |-> parts[Len(parts)], note |-> CatGet(categories, cat),
         cat |-> cat]

ScriptLine(info) ==
    [kind |-> "script", indent |-> Count(info.category, "/") + 1,
     text |-> info.alias, note |-> info.note, cat |-> info.category]

\* The loop over the sorted items; last_cat is <<>> for None, else <<cat>>.
RECURSIVE RenderItems(_, _, _)
RenderItems(items, last_cat, categories) ==
    IF items = <<>> THEN <<>>
    ELSE LET info == Head(items)
         IN  (IF <<info.category>> # last_cat
              THEN <<HeaderLine(info.category, categories)>> ELSE <<>>)
             \o <<ScriptLine(info)>>
             \o RenderItems(Tail(items), <<info.category>>, categories)

cmd_list(f) ==
    LET data == load_data(f)
    IN  [file |-> f,
         out  |-> IF data.scripts = <<>>
                  THEN Out("list_empty", <<>>, <<>>, <<>>, 0)
                  ELSE Out("list", <<>>, <<>>,
                           RenderItems(SortedByCategory(data.scripts), <<>>,
                                       data.categories), 0)]

----------------------------------------------------------------------------
(* cmd_add_script *)

\* Mutant of PickAlias: the loop without the same-path test, so that a taken
\* name is never reused.
RECURSIVE PickAliasNoReuse(_, _, _, _, _)
PickAliasNoReuse(scripts, original_alias, alias, counter, src_path) ==
    IF HasKey(scripts, alias)
    THEN PickAliasNoReuse(scripts, original_alias,
                          original_alias \o <<"_">> \o Str(counter),
                          counter + 1, src_path)
    ELSE alias

\* The collision loop: alias, alias_1, alias_2, ... until the name is unused
\* or already records this source path.
RECURSIVE PickAlias(_, _, _, _, _)
PickAlias(scripts, original_alias, alias, counter, src_path) ==
    IF HasKey(scripts, alias) /\ Get(scripts, alias).path # src_path
    THEN PickAlias(scripts, original_alias,
                   original_alias \o <<"_">> \o Str(counter), counter + 1,
                   src_path)
    ELSE alias

\* The database update of an add, after the copy: the record is stored
\* under the picked alias, the category gets an empty note if it has none,
\* and the registry is saved. args = <<category, file, note>>
RegisterScript(f, args) ==
    LET category    == Replace(args[1], "\\", "/")
        src_path    == Resolve(args[2])
        cat_dir     == JoinPath(StorageDir, Split(category, "/"))
        backup_path == cat_dir \o <<"/">> \o PathName(src_path)
        data        == load_data(f)
        stem        == PathStem(src_path)
        alias       == PickAlias(data.scripts, stem, stem, 1, src_path)
        rec         == [alias |-> alias, path |-> src_path,
                        backup |-> backup_path, category |-> category,
                        note |-> args[3]]
        categories  == IF CatHas(data.categories, category)
                       THEN data.categories
                       ELSE CatPut(data.categories, category, <<>>)
    IN  [file |-> save_data([scripts |-> Put(data.scripts, rec),
                             categories |-> categories]),
         out  |-> Out("add_ok", alias, args, <<>>, 1)]

\* Mutant of cmd_add_script: a failed copy is reported nowhere and the
\* record is registered all the same.
cmd_add_script_CopyUnchecked(f, args, env) ==
    IF ~env.exists
    THEN [file |-> f, out |-> Out("add_nofile", <<>>, args, <<>>, 0)]
    ELSE IF ~env.mkdir_ok
    THEN [file |-> f, out |-> Out("add_mkdir_exc", <<>>, args, <<>>, 0)]
    ELSE RegisterScript(f, args)

\* A missing source is reported; a directory that cannot be created raises
\* out of main (nothing catches it); a failed copy is reported. Each ends
\* the add before the registry is loaded.
cmd_add_script(f, args, env) ==
    IF ~env.exists
    THEN [file |-> f, out |-> Out("add_nofile", <<>>, args, <<>>, 0)]
    ELSE IF ~env.mkdir_ok
    THEN [file |-> f, out |-> Out("add_mkdir_exc", <<>>, args, <<>>, 0)]
    ELSE IF ~env.copy_ok
    THEN [file |-> f, out |-> Out("add_copyfail", <<>>, args, <<>>, 0)]
    ELSE RegisterScript(f, args)

----------------------------------------------------------------------------
(* cmd_add_category, cmd_update_note *)

\* Mutant of cmd_add_category: the path is used as given.
cmd_add_category_AsGiven(f, args) ==
    LET data == load_data(f)
    IN  [file |-> save_data([data EXCEPT
                     !.categories = CatPut(data.categories, args[1], args[2])]),
         out  |-> Out("cat_ok", <<>>, args, <<>>, 1)]

\* args = <<name, note>>
cmd_add_category(f, args) ==
    LET data == load_data(f)
        cat  == Replace(args[1], "\\", "/")
    IN  [file |-> save_data([data EXCEPT
                     !.categories = CatPut(data.categories, cat, args[2])]),
         out  |-> Out("cat_ok", <<>>, args, <<>>, 1)]

\* Mutant of cmd_update_note: the alias is looked up without its leading
\* dashes, as main does for the script to run.
cmd_update_note_Stripped(f, args) ==
    LET data  == load_data(f)
        alias == LStrip(args[1], "-")
    IN  IF ~HasKey(data.scripts, alias)
        THEN [file |-> f, out |-> Out("note_notfound", args[1], args, <<>>, 0)]
        ELSE [file |-> save_data([data EXCEPT !.scripts =
                         Put(data.scripts,
                             [Get(data.scripts, alias) EXCEPT
                                  !.note = args[2]])]),
              out  |-> Out("note_ok", args[1], args, <<>>, 1)]

\* args = <<alias, note>>
cmd_update_note(f, args) ==
    LET data == load_data(f)
    IN  IF ~HasKey(data.scripts, args[1])
        THEN [file |-> f, out |-> Out("note_notfound", args[1], args, <<>>, 0)]
        ELSE [file |-> save_data([data EXCEPT !.scripts =
                         Put(data.scripts,
                             [Get(data.scripts, args[1]) EXCEPT
                                  !.note = args[2]])]),
              out  |-> Out("note_ok", args[1], args, <<>>, 1)]

----------------------------------------------------------------------------
(* The management-flag parser of main: argparse with add_help=False and   *)
(* -h/--help, -l/--list (flags), -add (3 values), -cat (2), -n (2).        *)

OptHelp     == <<"-", "h">>
OptHelpLong == <<"-", "-", "h", "e", "l", "p">>
OptList     == <<"-", "l">>
OptListLong == <<"-", "-", "l", "i", "s", "t">>
OptAdd      == <<"-", "a", "d", "d">>
OptCat      == <<"-", "c", "a", "t">>
OptN        == <<"-", "n">>

OptionStrings ==
    {OptHelp, OptHelpLong, OptList, OptListLong, OptAdd, OptCat, OptN}

\* The namespace attribute an option string sets.
Dest(o) ==
    CASE o \in {OptHelp, OptHelpLong} -> "help"
      [] o \in {OptList, OptListLong} -> "list"
      [] o = OptAdd -> "add"
      [] o = OptCat -> "cat"
      [] o = OptN   -> "n"

\* The number of values an option takes.
Nargs(dest) ==
    CASE dest \in {"help", "list"} -> 0
      [] dest = "add" -> 3
      [] dest \in {"cat", "n"} -> 2

\* The interpretations of a dashed token that is no option string itself: a
\* "--" token abbreviates the option strings it is a prefix of; a "-" token
\* is a one-letter option glued to more text, or abbreviates likewise.
get_option_tuples(tok) ==
    IF tok[2] = "-"
    THEN {[opt |-> Dest(o), explicit |-> <<>>] :
             o \in {o \in OptionStrings : StartsWith(o, tok)}}
    ELSE {[opt |-> Dest(o), explicit |-> SubSeq(tok, 3, Len(tok))] :
             o \in {o \in OptionStrings : o = SubSeq(tok, 1, 2)}}
         \cup
         {[opt |-> Dest(o), explicit |-> <<>>] :
             o \in {o \in OptionStrings :
                       o # SubSeq(tok, 1, 2) /\ StartsWith(o, tok)}}

\* How the parser reads one token: opt "" is a positional, "?" an unknown
\* option, else the attribute of the option it names. With these option
\* strings no token has two interpretations.
parse_optional(tok) ==
    IF tok = <<>> \/ tok[1] # "-"
    THEN [opt |-> "", explicit |-> <<>>]
    ELSE IF tok \in OptionStrings
    THEN [opt |-> Dest(tok), explicit |-> <<>>]
    ELSE IF Len(tok) = 1
    THEN [opt |-> "", explicit |-> <<>>]
    ELSE IF get_option_tuples(tok) # {}
    THEN CHOOSE t \in get_option_tuples(tok) : TRUE
    ELSE [opt |-> "?", explicit |-> <<>>]

\* The namespace before parsing; error is set where argparse exits with
\* status 2. A list attribute is <<>> while unset (None).
EmptyNamespace ==
    [help |-> FALSE, list |-> FALSE, add |-> <<>>, cat |-> <<>>, n |-> <<>>,
     error |-> FALSE]

SetAttr(ns, dest, values) ==
    CASE dest = "help" -> [ns EXCEPT !.help = TRUE]
      [] dest = "list" -> [ns EXCEPT !.list = TRUE]
      [] dest = "add"  -> [ns EXCEPT !.add = values]
      [] dest = "cat"  -> [ns EXCEPT !.cat = values]
      [] dest = "n"    -> [ns EXCEPT !.n = values]

RECURSIVE parse_from(_, _, _)
RECURSIVE consume_optional(_, _, _, _, _)

\* An option at av[i]. With glued text, a flag passes the text on as further
\* one-letter options and a valued option fails; without, the option takes
\* its values from the positionals that follow it.
consume_optional(av, i, dest, explicit, ns) ==
    IF explicit # <<>>
    THEN IF Nargs(dest) = 0 /\ <<"-", explicit[1]>> \in OptionStrings
         THEN consume_optional(av, i, Dest(<<"-", explicit[1]>>),
                               Tail(explicit), SetAttr(ns, dest, <<>>))
         ELSE [ns EXCEPT !.error = TRUE]
    ELSE LET k == Nargs(dest)
         IN  IF i + k <= Len(av)
                /\ \A j \in (i + 1)..(i + k) : parse_optional(av[j]).opt = ""
             THEN parse_from(av, i + k + 1,
                             SetAttr(ns, dest, SubSeq(av, i + 1, i + k)))
             ELSE [ns EXCEPT !.error = TRUE]

\* parse_known_args from av[i] on: positionals and unknown options are left
\* over and ignored.
parse_from(av, i, ns) ==
    IF i > Len(av) THEN ns
    ELSE LET c == parse_optional(av[i])
         IN  IF c.opt \in {"", "?"} THEN parse_from(av, i + 1, ns)
             ELSE consume_optional(av, i, c.opt, c.explicit, ns)

parse_known_args(av) == parse_from(av, 1, EmptyNamespace)

----------------------------------------------------------------------------
(* main *)

ReservedTokens == {OptAdd, OptList, OptCat, OptN, OptHelp, OptHelpLong}

\* Mutant of TargetAlias: the dashes are stripped from reserved tokens too.
TargetAliasAnyToken(scripts, first_arg) ==
    IF ~HasKey(scripts, first_arg) /\ StartsWith(first_arg, <<"-">>)
       /\ HasKey(scripts, LStrip(first_arg, "-"))
    THEN LStrip(first_arg, "-")
    ELSE first_arg

\* The alias the first token stands for: itself, or, for a dashed token that
\* is no alias and no reserved token, the token without its leading dashes
\* when that is an alias.
TargetAlias(scripts, first_arg) ==
    IF ~HasKey(scripts, first_arg) /\ StartsWith(first_arg, <<"-">>)
       /\ first_arg \notin ReservedTokens
       /\ HasKey(scripts, LStrip(first_arg, "-"))
    THEN LStrip(first_arg, "-")
    ELSE first_arg

\* The management commands, once the first token did not name a script.
Manage(f, av, env) ==
    LET args == parse_known_args(av)
    IN  IF args.error
        THEN [file |-> f, out |-> Out("argerror", <<>>, <<>>, <<>>, 0)]
        ELSE IF args.help \/ av = <<>>
        THEN [file |-> f, out |-> Out("help", <<>>, <<>>, <<>>, 0)]
        ELSE IF args.list    THEN cmd_list(f)
        ELSE IF args.add # <<>> THEN cmd_add_script(f, args.add, env)
        ELSE IF args.cat # <<>> THEN cmd_add_category(f, args.cat)
        ELSE IF args.n # <<>>   THEN cmd_update_note(f, args.n)
        ELSE [file |-> f, out |-> Out("unknown", <<>>, <<av[1]>>, <<>>, 0)]

main(f, av, env) ==
    LET data == load_data(f)
    IN  IF av # <<>> /\ HasKey(data.scripts, TargetAlias(data.scripts, av[1]))
        THEN run_script_direct(f, TargetAlias(data.scripts, av[1]),
                               Tail(av), env)
        ELSE Manage(f, av, env)

----------------------------------------------------------------------------
(* Inputs *)

AliasL     == <<"l">>
AliasL1    == <<"l", "_", "1">>
AliasL2    == <<"l", "_", "2">>
DashDashL  == <<"-", "-", "l">>
DashL1     == <<"-", "l", "_", "1">>
Bogus      == <<"b">>

FileA      == <<"/", "a", "/", "l", ".", "p">>
FileRel    == <<"l", ".", "p">>
FileB      == <<"/", "b", "/", "l", ".", "p">>
FileL1     == <<"/", "a", "/", "l", "_", "1", ".", "p">>
FileDashL  == <<"/", "a", "/", "-", "l", ".", "p">>

CatT       == <<"t">>
CatTN      == <<"t", "/", "n">>
CatTNBack  == <<"t", "\\", "n">>

NoteEmpty  == <<>>
NoteX      == <<"x">>

Files      == {FileA, FileRel, FileB, FileL1, FileDashL}
Categories == {CatT, CatTNBack}
Notes      == {NoteEmpty, NoteX}

\* First tokens tried as a script name or flag, and what may follow them.
FirstTokens == {AliasL, OptList, DashDashL, DashL1, Bogus, OptHelp, OptHelpLong}
RestArgs    == {<<>>, <<OptList>>}

ArgvSet ==
    {<<>>, <<Bogus, OptCat, CatT, NoteX>>, <<OptList, OptHelp>>}
    \cup {<<t>> \o r : t \in FirstTokens, r \in RestArgs}
    \cup {<<OptAdd, c, f, NoteX>> : c \in Categories, f \in Files}
    \cup {<<OptCat, c, n>> : c \in Categories, n \in Notes}
    \cup {<<OptN, a, n>> : a \in {AliasL, Bogus}, n \in Notes}

\* Alias arguments for cmd_update_note called on its own.
NoteAliases == {AliasL, OptList, DashDashL}

----------------------------------------------------------------------------
(* Sequential use: one call at a time *)

Procs == {1, 2}

NoCall == [fn |-> "none", argv |-> <<>>, env |-> FsOk]

\* The filesystem answers a call consulted; the others are left at TRUE.
Consulted(kind, env) ==
    IF kind \in {"add_ok", "add_nofile", "add_mkdir_exc", "add_copyfail"}
    THEN env
    ELSE IF kind \in {"run", "run_missing"}
    THEN [FsOk EXCEPT !.exists = env.exists]
    ELSE FsOk

RaceIdle ==
    /\ pc = [p \in Procs |-> "idle"]
    /\ cmd = [p \in Procs |-> <<>>]
    /\ local = [p \in Procs |-> EmptyRegistry]
    /\ hist = <<>>
    /\ file0 = NoFile

Init ==
    /\ file = NoFile
    /\ before = NoFile
    /\ call = NoCall
    /\ out = NoOut
    /\ RaceIdle

\* One run of the manager with command line av, from start to exit.
Main(av, env) ==
    LET r == main(file, av, env)
    IN  /\ call.fn = "none"
        /\ Consulted(r.out.kind, env) = env
        /\ Len(load_data(r.file).scripts) <= MaxScripts
        /\ file' = r.file
        /\ before' = file
        /\ call' = [fn |-> "main", argv |-> av, env |-> env]
        /\ out' = r.out
        /\ UNCHANGED <<pc, cmd, local, hist, file0>>

\* cmd_update_note called with a namespace of its own.
UpdateNote(alias, note) ==
    LET r == cmd_update_note(file, <<alias, note>>)
    IN  /\ call.fn = "none"
        /\ file' = r.file
        /\ before' = file
        /\ call' = [fn |-> "cmd_update_note", argv |-> <<alias, note>>,
                    env |-> FsOk]
        /\ out' = r.out
        /\ UNCHANGED <<pc, cmd, local, hist, file0>>

\* The user has read the output; only data.json is left of the call.
Return ==
    /\ call.fn # "none"
    /\ call' = NoCall
    /\ out' = NoOut
    /\ before' = NoFile
    /\ UNCHANGED <<file, pc, cmd, local, hist, file0>>

Next ==
    \/ \E av \in ArgvSet, env \in EnvSet : Main(av, env)
    \/ \E a \in NoteAliases, n \in Notes : UpdateNote(a, n)
    \/ Return

Spec == Init /\ [][Next]_vars

----------------------------------------------------------------------------
(* Two invocations at once. Each loads data.json, changes its own copy,    *)
(* and saves: save_data opens the file for writing, which empties it, and  *)
(* then writes the document. Nothing orders the steps of the two runs.     *)

\* A command of one run: <<"add" | "cat" | "note", args>>. The source of an
\* add exists and is archived before the registry is loaded.
RunCmd(c, f) ==
    CASE c[1] = "add"  -> cmd_add_script(f, c[2], FsOk)
      [] c[1] = "cat"  -> cmd_add_category(f, c[2])
      [] c[1] = "note" -> cmd_update_note(f, c[2])

Truncated == [kind |-> "trunc",   data |-> EmptyRegistry]
Garbage   == [kind |-> "garbage", data |-> EmptyRegistry]

\* open(DATA_FILE, 'w')
OpenForWrite(f) == Truncated

\* len(json.dumps(s)) for a string of this alphabet: the quotes, and two
\* characters for a backslash.
JsonStrLen(str) == 2 + Len(str) + Count(str, "\\")

RECURSIVE Sum(_)
Sum(lens) == IF lens = <<>> THEN 0 ELSE Head(lens) + Sum(Tail(lens))

\* The length of a dict printed with indent=4 whose items, of the lengths
\* given, sit at `pad` spaces: "{}", or the items one per line, separated by
\* commas, and the closing brace four spaces further left.
JsonDictLen(lens, pad) ==
    IF lens = <<>> THEN 2
    ELSE 2 + Sum(lens) + pad * Len(lens) + 2 * (Len(lens) - 1)
         + 1 + (pad - 4) + 1

\* "key": "value"
JsonPairLen(key, value) == JsonStrLen(key) + 2 + JsonStrLen(value)

\* "alias": {"path": ..., "backup": ..., "category": ..., "note": ...}
JsonScriptLen(r) ==
    JsonStrLen(r.alias) + 2
    + JsonDictLen(<<JsonPairLen(<<"p", "a", "t", "h">>, r.path),
                    JsonPairLen(<<"b", "a", "c", "k", "u", "p">>, r.backup),
                    JsonPairLen(<<"c", "a", "t", "e", "g", "o", "r", "y">>,
                                r.category),
                    JsonPairLen(<<"n", "o", "t", "e">>, r.note)>>, 12)

\* The bytes json.dump(data, f, indent=4, ensure_ascii=False) writes.
DocLen(data) ==
    LET keys == CHOOSE q \in [1..Cardinality(DOMAIN data.categories) ->
                                  DOMAIN data.categories] :
                    \A i, j \in DOMAIN q : i # j => q[i] # q[j]
        scripts == [i \in 1..Len(data.scripts) |->
                        JsonScriptLen(data.scripts[i])]
        cats    == [i \in 1..Len(keys) |->
                        JsonPairLen(keys[i], data.categories[keys[i]])]
    IN  JsonDictLen(
            <<JsonStrLen(<<"s", "c", "r", "i", "p", "t", "s">>) + 2
                  + JsonDictLen(scripts, 8),
              JsonStrLen(<<"c", "a", "t", "e", "g", "o", "r", "i", "e", "s">>) + 2
                  + JsonDictLen(cats, 8)>>, 4)

\* json.dump into the opened file and close: a document of this size goes
\* out in one write at offset 0. On a file the other run wrote to since this
\* one opened it, a shorter document leaves the tail of the longer one
\* behind it, which no longer parses. (With two runs a write never finds a
\* garbage file.)
WriteResult(f, data) ==
    IF f.kind = "json" /\ DocLen(data) < DocLen(f.data)
    THEN Garbage
    ELSE save_data(data)

RaceCmds ==
    {<<"cat", <<CatT, NoteX>>>>, <<"cat", <<CatTNBack, NoteX>>>>,
     <<"note", <<AliasL, NoteEmpty>>>>, <<"note", <<Bogus, NoteX>>>>,
     <<"add", <<CatT, FileB, NoteX>>>>, <<"add", <<CatTNBack, FileRel, NoteX>>>>}

\* data.json before the two runs: missing, or holding one added script.
RaceFiles == {NoFile, cmd_add_script(NoFile, <<CatT, FileA, NoteX>>, FsOk).file}

RaceInit ==
    /\ file \in RaceFiles
    /\ file0 = file
    /\ cmd \in [Procs -> RaceCmds]
    /\ pc = [p \in Procs |-> "start"]
    /\ local = [p \in Procs |-> EmptyRegistry]
    /\ hist = <<>>
    /\ before = NoFile
    /\ call = NoCall
    /\ out = NoOut

\* load_data() and the change in memory; a command that reports an error
\* returns here without saving.
Load(p) ==
    LET r == RunCmd(cmd[p], file)
    IN  /\ pc[p] = "start"
        /\ local' = [local EXCEPT ![p] = r.file.data]
        /\ pc' = [pc EXCEPT ![p] = IF r.out.saves = 1 THEN "loaded" ELSE "done"]
        /\ hist' = Append(hist, <<p, "load">>)
        /\ UNCHANGED <<file, before, call, out, cmd, file0>>

\* save_data, first line: the file is opened and emptied.
SaveOpen(p) ==
    /\ pc[p] = "loaded"
    /\ file' = OpenForWrite(file)
    /\ pc' = [pc EXCEPT ![p] = "opened"]
    /\ hist' = Append(hist, <<p, "open">>)
    /\ UNCHANGED <<before, call, out, cmd, local, file0>>

\* save_data, second line: the document is written and the file closed.
SaveWrite(p) ==
    /\ pc[p] = "opened"
    /\ file' = WriteResult(file, local[p])
    /\ pc' = [pc EXCEPT ![p] = "done"]
    /\ hist' = Append(hist, <<p, "write">>)
    /\ UNCHANGED <<before, call, out, cmd, local, file0>>

RaceNext == \E p \in Procs : Load(p) \/ SaveOpen(p) \/ SaveWrite(p)

SpecRace == RaceInit /\ [][RaceNext]_vars

----------------------------------------------------------------------------
(* Properties. B is the registry the last call found, D the registry it    *)
(* left behind.                                                            *)

B == load_data(before)
D == load_data(file)

AliasesOf(reg) == {reg.scripts[i].alias : i \in 1..Len(reg.scripts)}
RecordOf(reg, a) ==
    reg.scripts[CHOOSE i \in 1..Len(reg.scripts) : reg.scripts[i].alias = a]

RunKinds == {"run", "run_missing"}
AddKinds == {"add_ok", "add_nofile", "add_mkdir_exc", "add_copyfail"}

\* The last call was `-add <category> <file> <note>`, `-cat <path> <note>`,
\* `-n <alias> <note>`.
IsAddCall  == call.fn = "main" /\ Len(call.argv) = 4 /\ call.argv[1] = OptAdd
IsCatCall  == call.fn = "main" /\ Len(call.argv) = 3 /\ call.argv[1] = OptCat
IsNoteCall == \/ call.fn = "cmd_update_note"
              \/ call.fn = "main" /\ Len(call.argv) = 3 /\ call.argv[1] = OptN
NoteArgs   == IF call.fn = "cmd_update_note" THEN call.argv ELSE Tail(call.argv)

\* A token without its leading dashes.
NameOf(tok) ==
    LET k == CHOOSE k \in 0..Len(tok) :
                 /\ \A i \in 1..k : tok[i] = "-"
                 /\ (k < Len(tok) => tok[k + 1] # "-")
    IN  SubSeq(tok, k + 1, Len(tok))

\* A path with every backslash written as a slash.
Slashed(path) == [i \in 1..Len(path) |-> IF path[i] = "\\" THEN "/" ELSE path[i]]

\* The k-th name tried for a stem: stem, stem_1, stem_2, ...
Candidate(stem, k) == IF k = 0 THEN stem ELSE stem \o <<"_">> \o Str(k)

\* A name an add of src may take: unused, or already recording src.
Usable(reg, name, src) ==
    name \notin AliasesOf(reg) \/ RecordOf(reg, name).path = src

\* C1: an add registers the file under the first of stem, stem_1, stem_2,
\* ... that is unused or already records the same resolved source path, and
\* changes no other alias. From the empty registry a first file with stem l
\* becomes l, a second one from another path l_1, and adding the first path
\* again overwrites l: the aliases stay {l, l_1}, there is no l_2.
C1_AddPicksFirstUsableAlias ==
    (IsAddCall /\ out.kind = "add_ok") =>
        LET src  == Resolve(call.argv[3])
            stem == PathStem(src)
        IN  /\ \E k \in 0..Len(B.scripts) :
                   /\ out.alias = Candidate(stem, k)
                   /\ Usable(B, Candidate(stem, k), src)
                   /\ \A j \in 0..(k - 1) : ~Usable(B, Candidate(stem, j), src)
            /\ AliasesOf(D) = AliasesOf(B) \cup {out.alias}
            /\ RecordOf(D, out.alias).path = src
            /\ RecordOf(D, out.alias).category = Slashed(call.argv[2])
            /\ RecordOf(D, out.alias).note = call.argv[4]
            /\ (B.scripts = <<>> /\ src \in {FileA, FileB})
                   => AliasesOf(D) = {AliasL}
            /\ (AliasesOf(B) = {AliasL} /\ src \in {FileA, FileB}
                   /\ RecordOf(B, AliasL).path \in {FileA, FileB} \ {src})
                   => AliasesOf(D) = {AliasL, AliasL1}
            /\ (AliasesOf(B) = {AliasL, AliasL1} /\ src \in {FileA, FileB}
                   /\ RecordOf(B, AliasL).path = src)
                   => (out.alias = AliasL /\ AliasesOf(D) = {AliasL, AliasL1})

\* C1 witness: with l and l_1 recorded for two paths, the path of l is added
\* again under another category; l is overwritten and no alias is created.
C1_Witness ==
    /\ IsAddCall /\ out.kind = "add_ok"
    /\ AliasesOf(B) = {AliasL, AliasL1}
    /\ RecordOf(B, AliasL).path = FileA /\ RecordOf(B, AliasL1).path = FileB
    /\ Resolve(call.argv[3]) = FileA
    /\ out.alias = AliasL
    /\ AliasesOf(D) = {AliasL, AliasL1}
    /\ RecordOf(D, AliasL).category # RecordOf(B, AliasL).category

\* C2: an add that fails, because the source file is missing or because
\* creating the directory or copying fails, reports an error, does not call
\* save_data and leaves data.json as it was.
C2_FailedAddLeavesRegistry ==
    (IsAddCall /\ call.env # FsOk) =>
        /\ out.kind \in {"add_nofile", "add_mkdir_exc", "add_copyfail"}
        /\ out.saves = 0
        /\ file = before

\* C2 witness: a failed copy into a registry that already holds records.
C2_Witness ==
    /\ IsAddCall /\ ~call.env.copy_ok
    /\ out.kind = "add_copyfail"
    /\ Len(B.scripts) >= 1
    /\ Resolve(call.argv[3]) \notin {B.scripts[i].path : i \in 1..Len(B.scripts)}

\* C3: a dashed first token that is no alias itself runs a script only if
\* the token without its dashes is an alias and the token is not reserved,
\* and then it runs that alias; `-l` never runs the script l and lists.
C3_DashedTokenResolution ==
    (call.fn = "main" /\ call.argv # <<>> /\ call.argv[1] # <<>>
        /\ call.argv[1][1] = "-" /\ call.argv[1] \notin AliasesOf(B)) =>
        /\ out.kind \in RunKinds =>
               /\ NameOf(call.argv[1]) \in AliasesOf(B)
               /\ call.argv[1] \notin
                      {OptAdd, OptList, OptCat, OptN, OptHelp, OptHelpLong}
               /\ out.alias = NameOf(call.argv[1])
        /\ call.argv[1] = OptList => out.kind \notin RunKinds
        /\ call.argv = <<OptList>> => out.kind \in {"list", "list_empty"}

\* C3 witness: `-l` with an alias l and no alias -l in the registry lists.
C3_Witness ==
    /\ call.fn = "main" /\ call.argv = <<OptList>>
    /\ AliasL \in AliasesOf(B) /\ OptList \notin AliasesOf(B)
    /\ out.kind = "list"

\* C4: a reserved first token (-h, --help, -l, -add, -cat, -n) never runs a
\* script, also when an alias is spelled like it.
C4_ReservedTokenNeverRuns ==
    (call.fn = "main" /\ call.argv # <<>>
        /\ call.argv[1] \in {OptAdd, OptList, OptCat, OptN, OptHelp, OptHelpLong})
        => out.kind \notin RunKinds

\* C5: the note command on an alias that is no key of scripts reports
\* not-found and leaves data.json as it was; on a key it sets the note of
\* that record and changes nothing else. The alias is compared as given.
C5_NoteUpdate ==
    IsNoteCall =>
        IF NoteArgs[1] \notin AliasesOf(B)
        THEN out.kind = "note_notfound" /\ out.saves = 0 /\ file = before
        ELSE /\ out.kind = "note_ok"
             /\ D.categories = B.categories
             /\ Len(D.scripts) = Len(B.scripts)
             /\ \A i \in 1..Len(B.scripts) :
                    D.scripts[i] =
                        IF B.scripts[i].alias = NoteArgs[1]
                        THEN [B.scripts[i] EXCEPT !.note = NoteArgs[2]]
                        ELSE B.scripts[i]

\* C5 witness: a note is changed in a registry with a second record.
C5_Witness ==
    /\ IsNoteCall /\ out.kind = "note_ok"
    /\ Len(B.scripts) >= 2
    /\ RecordOf(B, NoteArgs[1]).note # NoteArgs[2]
    /\ RecordOf(D, NoteArgs[1]).note = NoteArgs[2]
    /\ DOMAIN B.categories # {}

\* C6: the category command sets the entry of the path, written with
\* slashes, to the note and changes no other entry and no script; running it
\* again with the same arguments changes nothing.
C6_CategoryUpsert ==
    IsCatCall =>
        LET c == Slashed(call.argv[2])
        IN  /\ out.kind = "cat_ok"
            /\ D.scripts = B.scripts
            /\ DOMAIN D.categories = DOMAIN B.categories \cup {c}
            /\ D.categories[c] = call.argv[3]
            /\ \A k \in DOMAIN B.categories \ {c} :
                   D.categories[k] = B.categories[k]
            /\ main(file, call.argv, call.env).file = file
            /\ (c \in DOMAIN B.categories /\ B.categories[c] = call.argv[3])
                   => D = B

\* C6 witness: a path given with a backslash gets a new note under its
\* slashed form, next to another entry and a script.
C6_Witness ==
    /\ IsCatCall /\ call.argv[2] = CatTNBack
    /\ CatTN \in DOMAIN B.categories /\ B.categories[CatTN] # call.argv[3]
    /\ D.categories[CatTN] = call.argv[3]
    /\ CatT \in DOMAIN D.categories
    /\ CatTNBack \notin DOMAIN D.categories
    /\ D.scripts # <<>>

\* C7: a first token that names no alias, as given or without its dashes,
\* and is no management flag is answered with the unknown-command error,
\* whatever follows it.
C7_UnknownFirstToken ==
    (call.fn = "main" /\ call.argv # <<>>
        /\ call.argv[1] \notin AliasesOf(B)
        /\ NameOf(call.argv[1]) \notin AliasesOf(B)
        /\ parse_optional(call.argv[1]).opt \in {"", "?"})
        => out.kind = "unknown"

\* The place of a step of run p in the history, 0 if it has not happened.
Pos(p, ev) ==
    IF \E i \in 1..Len(hist) : hist[i] = <<p, ev>>
    THEN CHOOSE i \in 1..Len(hist) : hist[i] = <<p, ev>>
    ELSE 0

BothSaved == \A p \in Procs : pc[p] = "done" /\ Pos(p, "write") > 0

LoadsBeforeSaves ==
    \A p, q \in Procs : Pos(p, "load") < Pos(q, "open")

\* C8: when both runs load before either saves, data.json ends as exactly
\* the registry of the run whose save comes last, and the other run's change
\* is lost.
C8_LaterSaveWins ==
    (BothSaved /\ LoadsBeforeSaves) =>
        \A q \in Procs :
            Pos(q, "write") = Len(hist) => file = save_data(local[q])

\* What does hold of two runs (C8's remaining cases): when both load before
\* either saves and the first save is complete before the second opens the
\* file, data.json ends as the later run's command applied to the starting
\* registry alone; when one run's save is complete before the other loads, it
\* ends as both commands applied in turn.
C8_LostUpdateWithOrderedSaves ==
    BothSaved =>
        \A p, q \in Procs :
            /\ (LoadsBeforeSaves /\ Pos(p, "write") < Pos(q, "open")) =>
                   /\ file = save_data(local[q])
                   /\ file = RunCmd(cmd[q], file0).file
            /\ (p # q /\ Pos(p, "write") < Pos(q, "load")) =>
                   file = RunCmd(cmd[q], RunCmd(cmd[p], file0).file).file

\* The lost update: both loads come first, the saves follow one after the other,
\* and the earlier run's change is missing from data.json.
C8_Witness ==
    /\ BothSaved /\ LoadsBeforeSaves
    /\ \E p, q \in Procs :
           /\ Pos(p, "write") < Pos(q, "open")
           /\ file = RunCmd(cmd[q], file0).file
           /\ file # RunCmd(cmd[q], RunCmd(cmd[p], file0).file).file

\* The header and script lines of the last listing, the categories in use,
\* the header a script line stands under.
HeaderAt  == {i \in 1..Len(out.lines) : out.lines[i].kind = "header"}
ScriptAt  == {i \in 1..Len(out.lines) : out.lines[i].kind = "script"}
UsedCats  == {D.scripts[i].category : i \in 1..Len(D.scripts)}
HeaderOf(i) == CHOOSE h \in HeaderAt : h < i /\ \A g \in HeaderAt : g < i => g <= h
IsLastSegment(seg, path) ==
    /\ \A i \in 1..Len(seg) : seg[i] # "/"
    /\ Len(seg) <= Len(path)
    /\ SubSeq(path, Len(path) - Len(seg) + 1, Len(path)) = seg
    /\ (Len(seg) < Len(path) => path[Len(path) - Len(seg)] = "/")

\* C9: the listing of a registry with scripts has one header for each
\* category that has a script and none for any other; the headers come in
\* ascending order of the category path; a header is indented by the number
\* of slashes in the path and shows its last segment and the category's
\* note; every script has one line, after its category's header and before
\* the next header, indented one level more than that header.
C9_ListRendering ==
    (call.fn = "main" /\ out.kind \in {"list", "list_empty"}) =>
        /\ out.kind = "list" <=> D.scripts # <<>>
        /\ out.kind = "list" =>
            /\ {out.lines[h].cat : h \in HeaderAt} = UsedCats
            /\ Cardinality(HeaderAt) = Cardinality(UsedCats)
            /\ \A g, h \in HeaderAt :
                   g < h => StrLess(out.lines[g].cat, out.lines[h].cat)
            /\ \A h \in HeaderAt :
                   LET c == out.lines[h].cat
                   IN  /\ out.lines[h].indent =
                              Cardinality({i \in 1..Len(c) : c[i] = "/"})
                       /\ IsLastSegment(out.lines[h].text, c)
                       /\ out.lines[h].note =
                              IF c \in DOMAIN D.categories
                              THEN D.categories[c] ELSE <<>>
            /\ Cardinality(ScriptAt) = Len(D.scripts)
            /\ \A a \in AliasesOf(D) :
                   \E i \in ScriptAt :
                       /\ out.lines[i].text = a
                       /\ out.lines[i].note = RecordOf(D, a).note
                       /\ \E h \in HeaderAt : h < i
                       /\ out.lines[HeaderOf(i)].cat = RecordOf(D, a).category
                       /\ out.lines[i].indent = out.lines[HeaderOf(i)].indent + 1

\* C9 witness: scripts were added under t/n, t and t/n in that order, and
\* t/n carries a note.
C9_Witness ==
    /\ call.fn = "main" /\ out.kind = "list"
    /\ Len(D.scripts) = 3
    /\ D.scripts[1].category = CatTN /\ D.scripts[2].category = CatT
    /\ D.scripts[3].category = CatTN
    /\ D.categories[CatTN] = NoteX
    /\ Cardinality(HeaderAt) = 2

\* C10: no two aliases record the same source path; no call removes an alias
\* or changes the path under one; an add of a path that is already recorded
\* lands on the alias that records it.
C10_OneAliasPerPath ==
    /\ \A i, j \in 1..Len(D.scripts) :
           i # j => /\ D.scripts[i].path # D.scripts[j].path
                    /\ D.scripts[i].alias # D.scripts[j].alias
    /\ call.fn # "none" =>
           /\ Len(B.scripts) <= Len(D.scripts)
           /\ \A i \in 1..Len(B.scripts) :
                  /\ D.scripts[i].alias = B.scripts[i].alias
                  /\ D.scripts[i].path = B.scripts[i].path
    /\ (IsAddCall /\ out.kind = "add_ok") =>
           \A i \in 1..Len(B.scripts) :
               B.scripts[i].path = Resolve(call.argv[3])
                   => out.alias = B.scripts[i].alias

\* C10 witness: l_1 belongs to a file of that stem, so the second file with
\* stem l got l_2; it is added again under another category and stays l_2.
C10_Witness ==
    /\ IsAddCall /\ out.kind = "add_ok"
    /\ AliasesOf(B) = {AliasL, AliasL1, AliasL2}
    /\ RecordOf(B, AliasL1).path = FileL1
    /\ RecordOf(B, AliasL2).path = Resolve(call.argv[3])
    /\ out.alias = AliasL2
    /\ RecordOf(D, AliasL2).category # RecordOf(B, AliasL2).category
    /\ AliasesOf(D) = AliasesOf(B)

====
